---- MODULE Spec2Model ----
(***************************************************************************)
(* structlog.stdlib: the standard-library BoundLogger, the level filter    *)
(* filter_by_level and the positional-args renderer                        *)
(* StdlibFormatEventRenderer, as a state machine.                          *)
(*                                                                         *)
(* A Python string that is used as a %-template is kept in parsed form: a  *)
(* sequence of tokens, each a literal chunk or one conversion (%s, %d,     *)
(* %(key)s, %(key)d).  Text(..) gives back the characters.  A Python dict  *)
(* is a function from its keys; a tuple is a sequence.                     *)
(***************************************************************************)
EXTENDS Integers, Sequences, FiniteSets, TLC

(* ------------------------------------------------------------------ *)
(* Bounds of the model                                                 *)
(* ------------------------------------------------------------------ *)

\* longest tuple of positional arguments of one call
MaxArgs == 2
\* number of calls that may be in flight at once on the shared adapter
NumCalls == 2

(* ------------------------------------------------------------------ *)
(* State                                                                *)
(* ------------------------------------------------------------------ *)

VARIABLES
    pipeline,   \* the configured processors, in order
    _logger,     \* the underlying logger (its effective level)
    calls       \* per call slot: the call in flight on the shared adapter

vars == <<pipeline, _logger, calls>>

Slots == 1..NumCalls

(* ------------------------------------------------------------------ *)
(* Python values that travel as positional arguments                   *)
(* ------------------------------------------------------------------ *)

\* a scalar stored in a mapping
StrScalar(s) == [t |-> "str", s |-> s, i |-> 0]
IntScalar(i) == [t |-> "int", s |-> "", i |-> i]

\* a mapping is the sequence of its items in insertion order
StrValue(s) == [t |-> "str", s |-> s, i |-> 0, m |-> <<>>]
IntValue(i) == [t |-> "int", s |-> "", i |-> i, m |-> <<>>]
MapValue(m) == [t |-> "map", s |-> "", i |-> 0, m |-> m]
ScalarValue(sc) == [t |-> sc.t, s |-> sc.s, i |-> sc.i, m |-> <<>>]

World == StrValue("world")
Five == IntValue(5)
EmptyMap == MapValue(<<>>)
MapN5 == MapValue(<<[key |-> "n", val |-> IntScalar(5)]>>)

Values == {World, Five, EmptyMap, MapN5}

\* isinstance(v, dict)
IsDict(v) == v.t = "map"
\* bool(v) of a dict: it has at least one item
Truthy(v) == IF v.t = "map" THEN Len(v.m) > 0
             ELSE IF v.t = "int" THEN v.i # 0 ELSE v.s # ""

HasKey(m, k) == \E j \in 1..Len(m) : m[j].key = k
Lookup(m, k) == m[CHOOSE j \in 1..Len(m) : m[j].key = k].val

(* ------------------------------------------------------------------ *)
(* str() and repr() of the values                                      *)
(* ------------------------------------------------------------------ *)

Digit(d) == CASE d = 0 -> "0" [] d = 1 -> "1" [] d = 2 -> "2" [] d = 3 -> "3"
              [] d = 4 -> "4" [] d = 5 -> "5" [] d = 6 -> "6" [] d = 7 -> "7"
              [] d = 8 -> "8" [] OTHER -> "9"

RECURSIVE NatStr(_)
NatStr(n) == IF n < 10 THEN Digit(n) ELSE NatStr(n \div 10) \o Digit(n % 10)

IntStr(i) == IF i < 0 THEN "-" \o NatStr(0 - i) ELSE NatStr(i)

ScalarRepr(sc) == IF sc.t = "int" THEN IntStr(sc.i) ELSE "'" \o sc.s \o "'"

RECURSIVE ItemsRepr(_, _)
ItemsRepr(m, j) ==
    IF j > Len(m) THEN ""
    ELSE (IF j > 1 THEN ", " ELSE "")
         \o "'" \o m[j].key \o "': " \o ScalarRepr(m[j].val)
         \o ItemsRepr(m, j + 1)

\* str(v), what %s writes
Str(v) == CASE v.t = "str" -> v.s
            [] v.t = "int" -> IntStr(v.i)
            [] OTHER -> "{" \o ItemsRepr(v.m, 1) \o "}"

(* ------------------------------------------------------------------ *)
(* Templates                                                            *)
(* ------------------------------------------------------------------ *)

Lit(s) == [k |-> "lit", s |-> s, named |-> FALSE, key |-> ""]
Conv(c) == [k |-> c, s |-> "", named |-> FALSE, key |-> ""]
NamedConv(key, c) == [k |-> c, s |-> "", named |-> TRUE, key |-> key]

Hello == <<Lit("hello")>>
HelloS == <<Lit("hello "), Conv("s")>>
BadD == <<Lit("bad "), Conv("d")>>
CountN == <<Lit("count: "), NamedConv("n", "d")>>
PairSD == <<Conv("s"), Lit("="), Conv("d")>>

Events == {Hello, HelloS, BadD, CountN, PairSD}

TokenText(tk) == IF tk.k = "lit" THEN tk.s
                 ELSE "%" \o (IF tk.named THEN "(" \o tk.key \o ")" ELSE "")
                          \o tk.k

RECURSIVE TextFrom(_, _)
TextFrom(tpl, j) == IF j > Len(tpl) THEN ""
                    ELSE TokenText(tpl[j]) \o TextFrom(tpl, j + 1)

\* the characters of a string kept in parsed form
Text(tpl) == TextFrom(tpl, 1)

\* the parsed form of a string that holds no % sign
Plain(s) == IF s = "" THEN <<>> ELSE <<Lit(s)>>

(* ------------------------------------------------------------------ *)
(* The % operator of str: template % args                               *)
(* ------------------------------------------------------------------ *)

\* one conversion of value v: %d takes a number only
ConvOk(c, v) == c = "s" \/ v.t = "int"
ConvText(c, v) == IF c = "s" THEN Str(v) ELSE IntStr(v.i)

\* template % tuple: every conversion takes the next element; a named
\* conversion needs a mapping; elements left over are an error
RECURSIVE FormatTuple(_, _, _, _)
FormatTuple(tpl, j, args, a) ==
    IF j > Len(tpl)
    THEN [ok |-> a > Len(args), text |-> ""]
    ELSE LET tk == tpl[j] IN
         IF tk.k = "lit"
         THEN LET r == FormatTuple(tpl, j + 1, args, a)
              IN  [ok |-> r.ok, text |-> tk.s \o r.text]
         ELSE IF tk.named \/ a > Len(args) \/ ~ConvOk(tk.k, args[a])
              THEN [ok |-> FALSE, text |-> ""]
              ELSE LET r == FormatTuple(tpl, j + 1, args, a + 1)
                   IN  [ok |-> r.ok,
                        text |-> ConvText(tk.k, args[a]) \o r.text]

\* template % mapping: a named conversion looks its key up and converts
\* the value found; an unnamed conversion takes the single pending
\* argument (the mapping itself at first), which is then used up; nothing
\* is checked for being left over
RECURSIVE FormatMapping(_, _, _, _)
FormatMapping(tpl, j, mapping, pending) ==
    IF j > Len(tpl)
    THEN [ok |-> TRUE, text |-> ""]
    ELSE LET tk == tpl[j] IN
         IF tk.k = "lit"
         THEN LET r == FormatMapping(tpl, j + 1, mapping, pending)
              IN  [ok |-> r.ok, text |-> tk.s \o r.text]
         ELSE IF tk.named
              THEN IF ~HasKey(mapping.m, tk.key)
                   THEN [ok |-> FALSE, text |-> ""]
                   ELSE LET v == ScalarValue(Lookup(mapping.m, tk.key)) IN
                        IF ~ConvOk(tk.k, v)
                        THEN [ok |-> FALSE, text |-> ""]
                        ELSE LET r == FormatMapping(tpl, j + 1, mapping, <<>>)
                             IN  [ok |-> r.ok,
                                  text |-> ConvText(tk.k, v) \o r.text]
              ELSE IF pending = <<>> \/ ~ConvOk(tk.k, pending[1])
                   THEN [ok |-> FALSE, text |-> ""]
                   ELSE LET r == FormatMapping(tpl, j + 1, mapping, <<>>)
                        IN  [ok |-> r.ok,
                             text |-> ConvText(tk.k, pending[1]) \o r.text]

\* the right operand of %, tagged by its kind: a tuple or a mapping
TupleSource(args) == [dict |-> FALSE, args |-> args, mapping |-> EmptyMap]
MappingSource(m) == [dict |-> TRUE, args |-> <<>>, mapping |-> m]

PercentFormat(tpl, src) ==
    IF src.dict THEN FormatMapping(tpl, 1, src.mapping, <<src.mapping>>)
    ELSE FormatTuple(tpl, 1, src.args, 1)

(* ------------------------------------------------------------------ *)
(* Python dicts                                                         *)
(* ------------------------------------------------------------------ *)

EmptyDict == [k \in {} |-> 0]
\* d[k] = v
Put(d, k, v) == [y \in DOMAIN d \cup {k} |-> IF y = k THEN v ELSE d[y]]
\* d.pop(k)
Pop(d, k) == [y \in DOMAIN d \ {k} |-> d[y]]
\* d.update(e)
Update(d, e) == [y \in DOMAIN d \cup DOMAIN e |->
                    IF y \in DOMAIN e THEN e[y] ELSE d[y]]

(* ------------------------------------------------------------------ *)
(* Severity levels                                                      *)
(* ------------------------------------------------------------------ *)

CRITICAL == 50
FATAL == CRITICAL
ERROR == 40
WARNING == 30
WARN == WARNING
INFO == 20
DEBUG == 10
NOTSET == 0

_nameToLevel ==
    [critical |-> CRITICAL, error |-> ERROR, warn |-> WARNING,
     warning |-> WARNING, info |-> INFO, debug |-> DEBUG, notset |-> NOTSET]

\* the underlying logger: logging.Logger.isEnabledFor compares the level
\* with the logger's effective level
isEnabledFor(logger, level) == level >= logger.level

\* effective levels the underlying logger is configured with: everything
\* enabled, warnings and above, nothing enabled
Loggers == {[level |-> DEBUG], [level |-> WARNING], [level |-> CRITICAL + 1]}

(* ------------------------------------------------------------------ *)
(* Processors                                                           *)
(* ------------------------------------------------------------------ *)

\* what a processor call ends in: the returned event dict, or an exception
Return(event_dict) == [kind |-> "return", ed |-> event_dict]
Raise(exc, event_dict) == [kind |-> exc, ed |-> event_dict]

\* variant: the comparison the wrong way round
filter_by_level_inverted(logger, name, event_dict) ==
    IF name \notin DOMAIN _nameToLevel
    THEN Raise("UnknownLevel", event_dict)
    ELSE IF isEnabledFor(logger, _nameToLevel[name])
         THEN Raise("DropEvent", event_dict)
         ELSE Return(event_dict)

\* variant: the else branch lost, the event dict always returned
filter_by_level_never_drops(logger, name, event_dict) ==
    IF name \notin DOMAIN _nameToLevel
    THEN Raise("UnknownLevel", event_dict)
    ELSE Return(event_dict)

\* variant: _nameToLevel.get(name, NOTSET) in place of _nameToLevel[name]
filter_by_level_default_level(logger, name, event_dict) ==
    LET level == IF name \in DOMAIN _nameToLevel
                 THEN _nameToLevel[name] ELSE NOTSET
    IN  IF isEnabledFor(logger, level)
        THEN Return(event_dict)
        ELSE Raise("DropEvent", event_dict)


filter_by_level(logger, name, event_dict) ==
    IF name \notin DOMAIN _nameToLevel
    THEN Raise("UnknownLevel", event_dict)
    ELSE IF isEnabledFor(logger, _nameToLevel[name])
         THEN Return(event_dict)
         ELSE Raise("DropEvent", event_dict)

\* event_dict.get('positional_args'): the empty tuple stands for a value
\* that is false in `if args:` (None included)
GetPositionalArgs(event_dict) ==
    IF "positional_args" \in DOMAIN event_dict
    THEN event_dict["positional_args"] ELSE <<>>

\* the right operand of %: the single non-empty dict itself, else the tuple
\* variant: the test `and args[0]` lost
FormatOperand_any_dict(args) ==
    IF Len(args) = 1 /\ IsDict(args[1])
    THEN MappingSource(args[1])
    ELSE TupleSource(args)


FormatOperand(args) ==
    IF Len(args) = 1 /\ IsDict(args[1]) /\ Truthy(args[1])
    THEN MappingSource(args[1])
    ELSE TupleSource(args)

\* variant: a failing interpolation swallowed, the event left as it was
StdlibFormatEventRenderer_swallows(strip_positional_args, event_dict) ==
    LET args == GetPositionalArgs(event_dict) IN
    IF args # <<>>
    THEN LET r == PercentFormat(event_dict["event"], FormatOperand(args)) IN
         LET formatted == IF r.ok
                          THEN Put(event_dict, "event", Plain(r.text))
                          ELSE event_dict
         IN  IF strip_positional_args
             THEN Return(Pop(formatted, "positional_args"))
             ELSE Return(formatted)
    ELSE Return(event_dict)

\* variant: the strip flag never looked at
StdlibFormatEventRenderer_never_strips(strip_positional_args, event_dict) ==
    LET args == GetPositionalArgs(event_dict) IN
    IF args # <<>>
    THEN LET r == PercentFormat(event_dict["event"], FormatOperand(args)) IN
         IF ~r.ok
         THEN Raise("FormatMismatch", event_dict)
         ELSE Return(Put(event_dict, "event", Plain(r.text)))
    ELSE Return(event_dict)


StdlibFormatEventRenderer(strip_positional_args, event_dict) ==
    LET args == GetPositionalArgs(event_dict) IN
    IF args # <<>>
    THEN LET r == PercentFormat(event_dict["event"], FormatOperand(args)) IN
         IF ~r.ok
         THEN Raise("FormatMismatch", event_dict)
         ELSE LET formatted == Put(event_dict, "event", Plain(r.text)) IN
              IF strip_positional_args
              THEN Return(Pop(formatted, "positional_args"))
              ELSE Return(formatted)
    ELSE Return(event_dict)

FilterProc == [p |-> "filter_by_level", strip |-> FALSE]
RenderProc(strip) == [p |-> "StdlibFormatEventRenderer", strip |-> strip]
Processors == {FilterProc, RenderProc(TRUE), RenderProc(FALSE)}

\* process(logger, method_name, event_dict) of one configured processor
Process(proc, logger, method_name, event_dict) ==
    IF proc.p = "filter_by_level"
    THEN filter_by_level(logger, method_name, event_dict)
    ELSE StdlibFormatEventRenderer(proc.strip, event_dict)

\* the configured pipelines: none, one or two processors, in every order
Pipelines ==
    {<<>>} \cup {<<p>> : p \in Processors}
           \cup {<<p, q>> : p \in Processors, q \in Processors}

(* ------------------------------------------------------------------ *)
(* BoundLogger                                                          *)
(* ------------------------------------------------------------------ *)

\* variant: the positional arguments not stashed
_proxy_to_logger_drops_args(method_name, event, event_args, event_kw) ==
    event_kw

\* variant: event_kw.setdefault('positional_args', event_args)
_proxy_to_logger_setdefault(method_name, event, event_args, event_kw) ==
    IF event_args # <<>> /\ "positional_args" \notin DOMAIN event_kw
    THEN Put(event_kw, "positional_args", event_args)
    ELSE event_kw

\* variant: the keyword dict kept on the shared adapter instance, so that a
\* call starting while another is in flight works on that one's dict
_proxy_to_logger_shared_kw(method_name, event, event_args, event_kw) ==
    LET inflight == {d \in Slots : calls[d].pc = "chain"} IN
    IF inflight # {}
    THEN calls[CHOOSE d \in inflight : TRUE].kw
    ELSE IF event_args # <<>>
         THEN Put(event_kw, "positional_args", event_args)
         ELSE event_kw


\* BoundLogger._proxy_to_logger: the keyword arguments handed on
_proxy_to_logger(method_name, event, event_args, event_kw) ==
    IF event_args # <<>>
    THEN Put(event_kw, "positional_args", event_args)
    ELSE event_kw

\* BoundLogger.exception: the keyword arguments given to error()
exception_kw(kw) == Put(kw, "exc_info", TRUE)

\* variant: exception() passing its own name on instead of going through
\* error()
MethodName_exception_own_name(entry) ==
    CASE entry = "debug" -> "debug"
      [] entry = "info" -> "info"
      [] entry = "warning" -> "warning"
      [] entry = "warn" -> "warning"
      [] entry = "error" -> "error"
      [] entry = "critical" -> "critical"
      [] entry = "exception" -> "exception"


\* the method name each entry point passes to _proxy_to_logger
MethodName(entry) ==
    CASE entry = "debug" -> "debug"
      [] entry = "info" -> "info"
      [] entry = "warning" -> "warning"
      [] entry = "warn" -> "warning"
      [] entry = "error" -> "error"
      [] entry = "critical" -> "critical"
      [] entry = "exception" -> "error"

\* the bound context of the adapter instance
Context == EmptyDict

\* BoundLoggerBase: the event dict of one call
BuildEventDict(context, event, event_kw) ==
    Put(Update(context, event_kw), "event", event)

(* ------------------------------------------------------------------ *)
(* Inputs and the initial state                                         *)
(* ------------------------------------------------------------------ *)

\* every tuple of at most MaxArgs positional arguments
ArgTuples == UNION {[1..n -> Values] : n \in 0..MaxArgs}

\* keyword arguments a caller passes: none, or an own positional_args
\* (empty or not)
Kws == {EmptyDict,
        Put(EmptyDict, "positional_args", <<>>),
        Put(EmptyDict, "positional_args", <<World>>)}

\* names a processor may be called with directly
LevelNames == DOMAIN _nameToLevel \cup {"fatal", "exception", "trace"}

\* event dicts a processor may be called with directly
EventDicts ==
    {Put(EmptyDict, "event", e) : e \in Events}
    \cup {Put(Put(EmptyDict, "event", e), "positional_args", a) :
            e \in Events, a \in ArgTuples}

Idle == [pc |-> "idle", entry |-> "none", name |-> "", event |-> <<>>,
         args |-> <<>>, kw_in |-> EmptyDict, kw |-> EmptyDict,
         ed0 |-> EmptyDict, ed |-> EmptyDict, idx |-> 0, trace |-> <<>>,
         outcome |-> "none", sent |-> <<>>]

Init ==
    /\ pipeline \in Pipelines
    /\ _logger \in Loggers
    /\ calls = [c \in Slots |-> Idle]

(* ------------------------------------------------------------------ *)
(* The entry points of BoundLogger                                      *)
(* ------------------------------------------------------------------ *)

\* entry point -> BoundLogger._proxy_to_logger -> BoundLoggerBase, up to
\* the event dict that enters the processor chain
Enter(c, entry, event, args, kw_in, kw) ==
    /\ calls[c].pc = "idle"
    /\ LET name == MethodName(entry)
           handed == _proxy_to_logger(name, event, args, kw)
           ed == BuildEventDict(Context, event, handed)
       IN  calls' = [calls EXCEPT ![c] =
                [Idle EXCEPT !.pc = "chain", !.entry = entry, !.name = name,
                             !.event = event, !.args = args,
                             !.kw_in = kw_in, !.kw = handed,
                             !.ed0 = ed, !.ed = ed, !.idx = 1]]
    /\ UNCHANGED <<pipeline, _logger>>

debug(c, event, args, kw) == Enter(c, "debug", event, args, kw, kw)

info(c, event, args, kw) == Enter(c, "info", event, args, kw, kw)

warning(c, event, args, kw) == Enter(c, "warning", event, args, kw, kw)

warn(c, event, args, kw) == Enter(c, "warn", event, args, kw, kw)

error(c, event, args, kw) == Enter(c, "error", event, args, kw, kw)

critical(c, event, args, kw) == Enter(c, "critical", event, args, kw, kw)

exception(c, event, kw) ==
    Enter(c, "exception", event, <<>>, kw, exception_kw(kw))

(* ------------------------------------------------------------------ *)
(* The processor chain and the hand-over to the underlying logger       *)
(* ------------------------------------------------------------------ *)

TraceEntry(i, proc, in, r) ==
    [i |-> i, proc |-> proc, in |-> in, kind |-> r.kind, out |-> r.ed]

\* how a call ends when a processor raises: DropEvent is absorbed
Outcome(kind) == IF kind = "DropEvent" THEN "dropped" ELSE kind

\* the next processor of the chain runs on the call's event dict
RunProcessor(c) ==
    /\ calls[c].pc = "chain"
    /\ calls[c].idx <= Len(pipeline)
    /\ LET call == calls[c]
           proc == pipeline[call.idx]
           r == Process(proc, _logger, call.name, call.ed)
           t == Append(call.trace, TraceEntry(call.idx, proc, call.ed, r))
       IN  calls' = [calls EXCEPT ![c] =
                IF r.kind = "return"
                THEN [call EXCEPT !.ed = r.ed, !.idx = call.idx + 1,
                                  !.trace = t]
                ELSE [call EXCEPT !.ed = r.ed, !.trace = t, !.pc = "done",
                                  !.outcome = Outcome(r.kind)]]
    /\ UNCHANGED <<pipeline, _logger>>

\* what the underlying logger's method is called with
LoggerCall(method_name, event_dict) ==
    [method |-> method_name, msg |-> event_dict["event"],
     ctx |-> Pop(event_dict, "event")]

\* the chain ran through: the logger's method of the same name is called
ForwardToLogger(c) ==
    /\ calls[c].pc = "chain"
    /\ calls[c].idx > Len(pipeline)
    /\ calls' = [calls EXCEPT ![c] =
            [calls[c] EXCEPT !.pc = "done", !.outcome = "returned",
                             !.sent = <<LoggerCall(calls[c].name,
                                                   calls[c].ed)>>]]
    /\ UNCHANGED <<pipeline, _logger>>

\* one call run from start to end with nothing else in between: the chain
\* from processor i on, then the hand-over
RECURSIVE RunAlone(_, _, _, _)
RunAlone(method_name, event_dict, i, trace) ==
    IF i > Len(pipeline)
    THEN [outcome |-> "returned", sent |-> <<LoggerCall(method_name,
                                                        event_dict)>>,
          ed |-> event_dict, trace |-> trace]
    ELSE LET r == Process(pipeline[i], _logger, method_name, event_dict)
             t == Append(trace, TraceEntry(i, pipeline[i], event_dict, r))
         IN  IF r.kind = "return"
             THEN RunAlone(method_name, r.ed, i + 1, t)
             ELSE [outcome |-> Outcome(r.kind), sent |-> <<>>,
                   ed |-> r.ed, trace |-> t]

(* ------------------------------------------------------------------ *)
(* A processor called on its own                                        *)
(* ------------------------------------------------------------------ *)

Direct(c, proc, name, event_dict) ==
    /\ calls[c].pc = "idle"
    /\ LET r == Process(proc, _logger, name, event_dict)
       IN  calls' = [calls EXCEPT ![c] =
                [Idle EXCEPT !.pc = "done", !.entry = proc.p, !.name = name,
                             !.ed0 = event_dict, !.ed = r.ed,
                             !.trace = <<TraceEntry(1, proc, event_dict, r)>>,
                             !.outcome = r.kind]]
    /\ UNCHANGED <<pipeline, _logger>>

CallFilterByLevel(c, name, event_dict) ==
    Direct(c, FilterProc, name, event_dict)

CallRenderer(c, strip, event_dict) ==
    Direct(c, RenderProc(strip), "info", event_dict)

(* ------------------------------------------------------------------ *)
(* Specifications                                                       *)
(* ------------------------------------------------------------------ *)

IsIdle(c) == calls[c].pc = "idle"

\* one call at a time, over every input
Next ==
    \/ IsIdle(1) /\ \E event \in Events, args \in ArgTuples, kw \in Kws :
                        debug(1, event, args, kw)
    \/ IsIdle(1) /\ \E event \in Events, args \in ArgTuples, kw \in Kws :
                        info(1, event, args, kw)
    \/ IsIdle(1) /\ \E event \in Events, args \in ArgTuples, kw \in Kws :
                        warning(1, event, args, kw)
    \/ IsIdle(1) /\ \E event \in Events, args \in ArgTuples, kw \in Kws :
                        warn(1, event, args, kw)
    \/ IsIdle(1) /\ \E event \in Events, args \in ArgTuples, kw \in Kws :
                        error(1, event, args, kw)
    \/ IsIdle(1) /\ \E event \in Events, args \in ArgTuples, kw \in Kws :
                        critical(1, event, args, kw)
    \/ IsIdle(1) /\ \E event \in Events, kw \in Kws : exception(1, event, kw)
    \/ RunProcessor(1)
    \/ ForwardToLogger(1)
    \/ IsIdle(1) /\ \E name \in LevelNames, ed \in EventDicts :
                        CallFilterByLevel(1, name, ed)
    \/ IsIdle(1) /\ \E strip \in BOOLEAN, ed \in EventDicts :
                        CallRenderer(1, strip, ed)

Spec == Init /\ [][Next]_vars

\* several calls in flight at once on one adapter and one pipeline, their
\* steps interleaved in every order
ConcPipelines == {<<FilterProc, RenderProc(TRUE)>>,
                  <<FilterProc, RenderProc(FALSE)>>,
                  <<RenderProc(FALSE), FilterProc>>}
ConcEvents == {BadD}
ConcArgs == {<<World>>, <<Five>>}
ConcKws == {EmptyDict}

InitConc ==
    /\ pipeline \in ConcPipelines
    /\ _logger \in Loggers
    /\ calls = [c \in Slots |-> Idle]

NextConc ==
    \E c \in Slots :
        \/ IsIdle(c) /\ \E e \in ConcEvents, a \in ConcArgs, kw \in ConcKws :
                            debug(c, e, a, kw)
        \/ IsIdle(c) /\ \E e \in ConcEvents, a \in ConcArgs, kw \in ConcKws :
                            info(c, e, a, kw)
        \/ IsIdle(c) /\ \E e \in ConcEvents, a \in ConcArgs, kw \in ConcKws :
                            warning(c, e, a, kw)
        \/ IsIdle(c) /\ \E e \in ConcEvents, a \in ConcArgs, kw \in ConcKws :
                            warn(c, e, a, kw)
        \/ IsIdle(c) /\ \E e \in ConcEvents, a \in ConcArgs, kw \in ConcKws :
                            error(c, e, a, kw)
        \/ IsIdle(c) /\ \E e \in ConcEvents, a \in ConcArgs, kw \in ConcKws :
                            critical(c, e, a, kw)
        \/ IsIdle(c) /\ \E e \in ConcEvents, kw \in ConcKws :
                            exception(c, e, kw)
        \/ RunProcessor(c)
        \/ ForwardToLogger(c)

SpecConc == InitConc /\ [][NextConc]_vars

(* ------------------------------------------------------------------ *)
(* Vocabulary of the properties                                         *)
(* ------------------------------------------------------------------ *)

SeverityEntries == {"debug", "info", "warning", "warn", "error", "critical"}
AdapterEntries == SeverityEntries \cup {"exception"}
Errors == {"UnknownLevel", "FormatMismatch"}

IsAdapterCall(call) == call.entry \in AdapterEntries
IsSeverityCall(call) == call.entry \in SeverityEntries

\* the level table, spelled out per name as the documentation lists it
LevelOf(name) ==
    CASE name = "critical" -> 50
      [] name = "error" -> 40
      [] name \in {"warning", "warn"} -> 30
      [] name = "info" -> 20
      [] name = "debug" -> 10
      [] OTHER -> 0

\* the underlying logger reports the level of the call's severity disabled
LevelDisabled(call) == LevelOf(call.name) < _logger.level

FilterPositions == {i \in 1..Len(pipeline) : pipeline[i] = FilterProc}
IsRenderer(proc) == proc.p = "StdlibFormatEventRenderer"

\* the positional_args a call ends up carrying: its positional arguments
\* when it has some, else the keyword the caller supplied, if any
CarriedArgs(call) ==
    IF call.args # <<>> THEN call.args
    ELSE IF "positional_args" \in DOMAIN call.kw_in
         THEN call.kw_in["positional_args"] ELSE <<>>

\* the keyword arguments an entry point receives from its caller, as it
\* gives them to _proxy_to_logger
GivenKw(call) ==
    IF call.entry = "exception" THEN Put(call.kw_in, "exc_info", TRUE)
    ELSE call.kw_in

\* the substitution source the specification prescribes
SpecifiedSource(pa) ==
    IF Len(pa) = 1 /\ pa[1].t = "map" /\ pa[1].m # <<>>
    THEN MappingSource(pa[1]) ELSE TupleSource(pa)

Conversions(tpl) == SelectSeq(tpl, LAMBDA tk : tk.k # "lit")

\* the arguments do not match the placeholders of the template, in number
\* or in type
Mismatch(tpl, pa) ==
    LET cs == Conversions(tpl)
        src == SpecifiedSource(pa)
    IN  IF src.dict
        THEN \E j \in 1..Len(cs) :
                /\ cs[j].named
                /\ \/ ~HasKey(src.mapping.m, cs[j].key)
                   \/ /\ cs[j].k = "d"
                      /\ Lookup(src.mapping.m, cs[j].key).t # "int"
        ELSE \/ \E j \in 1..Len(cs) : cs[j].named
             \/ Len(cs) # Len(pa)
             \/ \E j \in 1..Len(cs) :
                   j <= Len(pa) /\ cs[j].k = "d" /\ pa[j].t # "int"

(* ------------------------------------------------------------------ *)
(* C1                                                                   *)
(* ------------------------------------------------------------------ *)

\* C1 as stated: for every severity entry point, event and arguments, when
\* the level filter is in the pipeline and the underlying logger reports the
\* level disabled, the finished call has made no call to the underlying
\* logger and has returned normally, without raising.
C1_Claimed ==
    \A c \in Slots :
        LET call == calls[c] IN
        (/\ IsSeverityCall(call) /\ call.pc = "done"
         /\ FilterPositions # {} /\ LevelDisabled(call))
        => (call.sent = <<>> /\ call.outcome = "dropped")

\* C1 amended: under the same conditions the call never calls the
\* underlying logger; it returns normally (dropped) unless a processor
\* placed before the level filter raised, and always when the level filter
\* is the first processor.
C1_DisabledLevelDrops ==
    \A c \in Slots :
        LET call == calls[c] IN
        (/\ IsSeverityCall(call) /\ call.pc = "done"
         /\ FilterPositions # {} /\ LevelDisabled(call))
        => /\ call.sent = <<>>
           /\ \/ call.outcome = "dropped"
              \/ /\ call.outcome \in Errors
                 /\ \A i \in FilterPositions : Len(call.trace) < i
           /\ pipeline[1] = FilterProc => call.outcome = "dropped"

C1_Witness ==
    \E c \in Slots :
        /\ calls[c].entry = "critical" /\ calls[c].pc = "done"
        /\ pipeline = <<FilterProc, RenderProc(TRUE)>>
        /\ LevelDisabled(calls[c])
        /\ calls[c].event = BadD /\ calls[c].args = <<World>>
        /\ calls[c].outcome = "dropped" /\ calls[c].sent = <<>>

(* ------------------------------------------------------------------ *)
(* C2                                                                   *)
(* ------------------------------------------------------------------ *)

FilterThenRenderer ==
    /\ Len(pipeline) = 2
    /\ pipeline[1] = FilterProc
    /\ IsRenderer(pipeline[2])

\* C2 as stated: with the pipeline [level filter, renderer] and the level
\* enabled, a finished severity call has forwarded exactly one message,
\* which is the original event when the call has no positional arguments
\* and the event interpolated with them when it has some.
C2_Claimed ==
    \A c \in Slots :
        LET call == calls[c] IN
        (/\ IsSeverityCall(call) /\ call.pc = "done"
         /\ FilterThenRenderer /\ ~LevelDisabled(call))
        => /\ Len(call.sent) = 1
           /\ call.sent[1].msg =
                 IF call.args = <<>> THEN call.event
                 ELSE Plain(PercentFormat(call.event,
                                          SpecifiedSource(call.args)).text)

\* C2 amended: with the pipeline [level filter, renderer] and the level
\* enabled, a finished severity call whose interpolation does not fail has
\* forwarded exactly one message, to the logger method of its severity: the
\* original event when it carries no positional_args (no positional
\* arguments and no non-empty positional_args keyword), else the event
\* interpolated with them (the positional arguments when there are some);
\* when the interpolation fails it has forwarded nothing.
C2_EnabledForwardsMessage ==
    \A c \in Slots :
        LET call == calls[c]
            pa == CarriedArgs(call)
            r == PercentFormat(call.event, SpecifiedSource(pa))
        IN
        (/\ IsSeverityCall(call) /\ call.pc = "done"
         /\ FilterThenRenderer /\ ~LevelDisabled(call))
        => /\ (pa # <<>> /\ ~r.ok) => call.sent = <<>>
           /\ (pa = <<>> \/ r.ok) =>
                 /\ Len(call.sent) = 1
                 /\ call.sent[1].method = MethodName(call.entry)
                 /\ call.sent[1].msg =
                       IF pa = <<>> THEN call.event ELSE Plain(r.text)
           /\ (call.event = HelloS /\ call.args = <<World>>) =>
                 Text(call.sent[1].msg) = "hello world"
           /\ (call.event = HelloS /\ pa = <<>>) =>
                 Text(call.sent[1].msg) = "hello %s"

C2_Witness ==
    \E c \in Slots :
        /\ calls[c].entry = "info" /\ calls[c].pc = "done"
        /\ pipeline = <<FilterProc, RenderProc(FALSE)>>
        /\ ~LevelDisabled(calls[c])
        /\ calls[c].event = HelloS /\ calls[c].args = <<World>>
        /\ Len(calls[c].sent) = 1
        /\ Text(calls[c].sent[1].msg) = "hello world"

(* ------------------------------------------------------------------ *)
(* C3                                                                   *)
(* ------------------------------------------------------------------ *)

\* the processors invoked are a prefix of the configured order, each on the
\* event dict the one before returned
InvokedPrefix(call) ==
    /\ Len(call.trace) <= Len(pipeline)
    /\ \A k \in 1..Len(call.trace) :
          /\ call.trace[k].i = k
          /\ call.trace[k].proc = pipeline[k]
          /\ call.trace[k].in =
                IF k = 1 THEN call.ed0 ELSE call.trace[k - 1].out
          /\ k < Len(call.trace) => call.trace[k].kind = "return"

\* no processor after the level filter runs when the level is disabled
NothingAfterFilter(call) ==
    LevelDisabled(call) =>
        \A i \in FilterPositions : Len(call.trace) <= i

\* C3 as stated: in every run of the chain the processors invoked are a
\* prefix of the configured order, each receiving the event dict returned
\* by the one before; the prefix is the whole list when no processor
\* signals Drop and ends at the first that does; nothing after the level
\* filter is invoked when the level is disabled.
C3_Claimed ==
    \A c \in Slots :
        LET call == calls[c]
            n == Len(call.trace)
        IN
        IsAdapterCall(call) =>
           /\ InvokedPrefix(call)
           /\ NothingAfterFilter(call)
           /\ call.pc = "done" =>
                 IF \E k \in 1..n : call.trace[k].kind = "DropEvent"
                 THEN call.trace[n].kind = "DropEvent"
                 ELSE n = Len(pipeline)

\* C3 amended: as stated, except that the prefix is the whole list when no
\* processor signals Drop or raises an error, and ends at the first
\* processor that signals Drop or raises.
C3_ChainRunsPrefix ==
    \A c \in Slots :
        LET call == calls[c]
            n == Len(call.trace)
        IN
        IsAdapterCall(call) =>
           /\ InvokedPrefix(call)
           /\ NothingAfterFilter(call)
           /\ call.pc = "done" =>
                 IF \E k \in 1..n : call.trace[k].kind # "return"
                 THEN /\ call.trace[n].kind # "return"
                      /\ call.outcome = Outcome(call.trace[n].kind)
                      /\ call.sent = <<>>
                 ELSE n = Len(pipeline) /\ call.outcome = "returned"

C3_Witness ==
    \E c \in Slots :
        /\ calls[c].entry = "debug" /\ calls[c].pc = "done"
        /\ pipeline = <<RenderProc(FALSE), FilterProc>>
        /\ LevelDisabled(calls[c])
        /\ calls[c].args = <<World>> /\ calls[c].event = HelloS
        /\ Len(calls[c].trace) = 2
        /\ calls[c].trace[2].kind = "DropEvent"
        /\ Text(calls[c].trace[2].in["event"]) = "hello world"

(* ------------------------------------------------------------------ *)
(* C4                                                                   *)
(* ------------------------------------------------------------------ *)

\* C4: whenever the renderer is invoked with positional arguments that do
\* not match the placeholders of the event (as in info("bad %d",
\* "notanumber")), it raises FormatMismatch, not Drop; a call of the adapter
\* in which it does so ends with FormatMismatch raised to its caller and
\* with no call to the underlying logger.
C4_FormatMismatchPropagates ==
    \A c \in Slots :
        LET call == calls[c]
            n == Len(call.trace)
        IN
        /\ \A k \in 1..n :
              LET t == call.trace[k]
                  pa == GetPositionalArgs(t.in)
              IN  (/\ IsRenderer(t.proc) /\ pa # <<>>
                   /\ Mismatch(t.in["event"], pa))
                  => t.kind = "FormatMismatch"
        /\ (/\ IsAdapterCall(call) /\ n > 0
            /\ call.trace[n].kind = "FormatMismatch")
           => /\ call.pc = "done"
              /\ call.outcome = "FormatMismatch"
              /\ call.sent = <<>>

C4_Witness ==
    \E c \in Slots :
        /\ calls[c].entry = "info" /\ calls[c].pc = "done"
        /\ calls[c].event = BadD /\ calls[c].args = <<World>>
        /\ pipeline = <<FilterProc, RenderProc(TRUE)>>
        /\ calls[c].outcome = "FormatMismatch" /\ calls[c].sent = <<>>

(* ------------------------------------------------------------------ *)
(* C5                                                                   *)
(* ------------------------------------------------------------------ *)

KnownNames ==
    {"critical", "error", "warn", "warning", "info", "debug", "notset"}

\* C5: the level filter, invoked with a severity name that is no key of
\* the level table, raises UnknownLevel whatever the logger's level: it
\* neither returns the event dict nor signals Drop.
C5_UnknownLevelRaises ==
    \A c \in Slots :
        \A k \in 1..Len(calls[c].trace) :
            LET t == calls[c].trace[k] IN
            (t.proc = FilterProc /\ calls[c].name \notin KnownNames)
            => /\ t.kind = "UnknownLevel"
               /\ t.kind # "return" /\ t.kind # "DropEvent"

C5_Witness ==
    \E c \in Slots :
        /\ calls[c].entry = "filter_by_level" /\ calls[c].name = "fatal"
        /\ _logger.level = DEBUG
        /\ calls[c].pc = "done" /\ calls[c].outcome = "UnknownLevel"

(* ------------------------------------------------------------------ *)
(* C6                                                                   *)
(* ------------------------------------------------------------------ *)

\* C6 as stated: for every event dict on which the renderer returns
\* normally, with the strip flag true the returned dict has no
\* positional_args key, and with the strip flag false it keeps the key with
\* its original value.
C6_Claimed ==
    \A c \in Slots :
        \A k \in 1..Len(calls[c].trace) :
            LET t == calls[c].trace[k] IN
            (IsRenderer(t.proc) /\ t.kind = "return")
            => IF t.proc.strip
               THEN "positional_args" \notin DOMAIN t.out
               ELSE "positional_args" \in DOMAIN t.in =>
                       /\ "positional_args" \in DOMAIN t.out
                       /\ t.out["positional_args"] = t.in["positional_args"]

\* C6 amended: for every event dict with a non-empty positional_args on
\* which the renderer returns normally, with the strip flag true the
\* returned dict has no positional_args key and with the strip flag false
\* it keeps the key with its original value; a dict whose positional_args
\* is absent or empty is returned unchanged whatever the flag.
C6_StripWhenRendered ==
    \A c \in Slots :
        \A k \in 1..Len(calls[c].trace) :
            LET t == calls[c].trace[k] IN
            (IsRenderer(t.proc) /\ t.kind = "return")
            => IF "positional_args" \in DOMAIN t.in
                  /\ t.in["positional_args"] # <<>>
               THEN IF t.proc.strip
                    THEN "positional_args" \notin DOMAIN t.out
                    ELSE /\ "positional_args" \in DOMAIN t.out
                         /\ t.out["positional_args"]
                               = t.in["positional_args"]
               ELSE t.out = t.in

C6_Witness ==
    \E c \in Slots :
        /\ calls[c].entry = "StdlibFormatEventRenderer"
        /\ calls[c].pc = "done" /\ calls[c].outcome = "return"
        /\ calls[c].trace[1].proc.strip
        /\ calls[c].ed0["event"] = PairSD
        /\ "positional_args" \in DOMAIN calls[c].ed0
        /\ calls[c].ed0["positional_args"] = <<World, Five>>
        /\ DOMAIN calls[c].ed = {"event"}

(* ------------------------------------------------------------------ *)
(* C7                                                                   *)
(* ------------------------------------------------------------------ *)

C8_AdapterNamesInTable ==
    \A c \in Slots :
        LET call == calls[c] IN
        IsAdapterCall(call) =>
           /\ call.name \in KnownNames
           /\ call.name \in DOMAIN _nameToLevel
           /\ call.outcome # "UnknownLevel"
           /\ \A k \in 1..Len(call.trace) :
                 call.trace[k].kind # "UnknownLevel"

C8_Witness ==
    \E c \in Slots :
        /\ calls[c].entry = "exception" /\ calls[c].name = "error"
        /\ calls[c].pc = "done"
        /\ pipeline = <<FilterProc>>
        /\ Len(calls[c].trace) = 1 /\ calls[c].trace[1].kind = "return"
        /\ calls[c].outcome = "returned"

(* ------------------------------------------------------------------ *)
(* C9                                                                   *)
(* ------------------------------------------------------------------ *)

\* the event dict a call starts the chain with
OwnEventDict(call) ==
    BuildEventDict(Context, call.event,
                   IF call.args # <<>>
                   THEN Put(GivenKw(call), "positional_args", call.args)
                   ELSE GivenKw(call))

\* C9: with several calls in flight at once on one adapter and one
\* pipeline, under every interleaving each call works on its own event
\* dict, which at every point is what the processors it has run so far make
\* of its own input, and each call ends (dropped, FormatMismatch raised, or
\* the message forwarded) exactly as it would have run alone.
C9_CallsIndependent ==
    \A c \in Slots :
        LET call == calls[c]
            n == Len(call.trace)
            alone == RunAlone(call.name, OwnEventDict(call), 1, <<>>)
        IN
        IsAdapterCall(call) =>
           /\ call.ed0 = OwnEventDict(call)
           /\ n <= Len(alone.trace)
           /\ call.trace = SubSeq(alone.trace, 1, n)
           /\ call.ed = IF n = 0 THEN call.ed0 ELSE call.trace[n].out
           /\ call.pc = "chain" => (call.idx = n + 1 /\ call.sent = <<>>)
           /\ call.pc = "done" =>
                 /\ call.trace = alone.trace
                 /\ call.outcome = alone.outcome
                 /\ call.sent = alone.sent
                 /\ call.ed = alone.ed

C9_Witness ==
    \E c \in Slots, d \in Slots :
        /\ c # d
        /\ Len(pipeline) = 2 /\ IsRenderer(pipeline[2])
        /\ calls[c].entry = "info" /\ calls[d].entry = "error"
        /\ calls[c].args = <<World>> /\ calls[d].args = <<Five>>
        /\ calls[c].pc = "chain" /\ calls[c].idx = 2
        /\ calls[d].pc = "done" /\ calls[d].outcome = "returned"
        /\ Text(calls[d].sent[1].msg) = "bad 5"

(* ------------------------------------------------------------------ *)
(* C10                                                                  *)
(* ------------------------------------------------------------------ *)

\* C10: a call with at least one positional argument hands on, as
\* positional_args, exactly the tuple of its positional arguments in call
\* order, in place of any positional_args keyword of the caller; a call
\* with none hands the keyword arguments on unchanged (a positional_args
\* keyword kept as given, none added).
C10_HandOff ==
    \A c \in Slots :
        LET call == calls[c] IN
        IsAdapterCall(call) =>
           /\ call.args # <<>> =>
                 /\ "positional_args" \in DOMAIN call.kw
                 /\ call.kw["positional_args"] = call.args
                 /\ Pop(call.kw, "positional_args")
                       = Pop(GivenKw(call), "positional_args")
                 /\ call.ed0["positional_args"] = call.args
           /\ call.args = <<>> =>
                 /\ call.kw = GivenKw(call)
                 /\ Pop(call.ed0, "event") = GivenKw(call)

C10_Witness ==
    \E c \in Slots :
        /\ calls[c].entry = "error" /\ calls[c].pc # "idle"
        /\ calls[c].args = <<Five, MapN5>>
        /\ "positional_args" \in DOMAIN calls[c].kw_in
        /\ calls[c].kw_in["positional_args"] = <<World>>
        /\ calls[c].kw["positional_args"] = <<Five, MapN5>>

====
